---- MODULE Spec2Model ----
(***************************************************************************)
(* Model of labs/day-5/4-streamit.py: a Streamlit script that is run from  *)
(* top to bottom once per UI event.  The state is what survives between    *)
(* runs (the sidebar widget value, os.environ, the st.cache_resource cache *)
(* of setup_agent, st.session_state) plus the position and the names bound *)
(* by the run in progress.  Text is a sequence of string fragments, so an  *)
(* f-string is the concatenation of its literal parts and its arguments.   *)
(* A script run is sequential: UI events are taken only between runs.      *)
(***************************************************************************)
EXTENDS Naturals, Sequences, FiniteSets

VARIABLES
    api_key_input,   \* value of the sidebar text_input (key="api_key_input")
    environ,         \* os.environ: a dict with domain within {"OPENAI_API_KEY"}
    cache,           \* st.cache_resource entries of setup_agent (domain within {"setup_agent"})
    session_state,   \* st.session_state: a dict with domain within {"messages"}
    pc,              \* position of the script run, "idle" between runs
    openai_api_key,  \* name bound at line 131
    agent_executor,  \* name bound at line 148 (<<>> while unbound)
    chat_value,      \* text the chat_input widget delivers to this run (<<>> = None)
    prompt,          \* name bound at line 165
    turn,            \* how agent_executor.invoke ended in this run
    rendered,        \* elements drawn by this run, in order
    calls,           \* setup_agent bodies / executor invocations made by this run
    last_stop,       \* where the previous run ended
    submissions      \* number of chat submissions accepted so far

vars == <<api_key_input, environ, cache, session_state, pc, openai_api_key,
          agent_executor, chat_value, prompt, turn, rendered, calls,
          last_stop, submissions>>

(* ---------------------------- bounds and inputs ------------------------ *)

MaxSubmissions == 2

ApiKeys == {"sk-a", "sk-b"}
Questions == {<<"What is 12 * 7?">>, <<"Who won today?">>}
Exceptions == {"RateLimitError", "ValueError"}
SetupExceptions == {"ImportError"}

(* ------------------------------ helpers -------------------------------- *)

EmptyDict == [k \in {} |-> <<>>]

\* dict.get(key, default)
dict_get(d, key, default) == IF key \in DOMAIN d THEN d[key] ELSE default

\* d[key] = value
dict_set(d, key, value) ==
    [k \in DOMAIN d \cup {key} |-> IF k = key THEN value ELSE d[k]]

\* what agent_executor.invoke may return: a dict with or without "output"
Responses == {[k \in {"output"} |-> <<"84">>], EmptyDict}

temperature == 0
max_iterations == 5

\* the object setup_agent builds; the OpenAI client reads the key that
\* os.environ holds when it is constructed
AgentExecutor(env) ==
    [llm |-> [temperature |-> temperature,
              openai_api_key |-> dict_get(env, "OPENAI_API_KEY", "")],
     tools |-> <<"ddg-search", "llm-math">>,
     verbose |-> TRUE,
     handle_parsing_errors |-> TRUE,
     max_iterations |-> max_iterations]

NoTurn == [kind |-> "none", e |-> ""]

Element(widget, role, body) == [widget |-> widget, role |-> role, body |-> body]

Message(role, content) == [role |-> role, content |-> content]

\* `not openai_api_key`
key_is_none(key) == FALSE

not_openai_api_key(key) == key = ""

\* st.cache_resource: is there an entry for this call?
cache_hit_never(c) == FALSE

cache_hit(c) == "setup_agent" \in DOMAIN c

\* `"messages" not in st.session_state`
messages_not_in_always(ss) == TRUE

messages_not_in(ss) == "messages" \notin DOMAIN ss

\* st.session_state.messages.append(...)
append_replacing(ss, msg) == dict_set(ss, "messages", <<msg>>)

messages_append(ss, msg) ==
    dict_set(ss, "messages", Append(ss["messages"], msg))

\* line 167: the user's message goes into the history
append_user_skipped(ss, p) == ss

append_user(ss, p) == messages_append(ss, Message("user", p))

\* line 179
default_answer == <<"Sorry, I encountered an error.">>

\* line 185: f"An error occurred: {e}. Please try again."
error_message_bare(e) == <<e>>

error_message_fmt(e) == <<"An error occurred: ", e, ". Please try again.">>

\* line 150
init_error_fmt(e) ==
    <<"Failed to initialize the agent. Please check your API key and dependencies. Error: ", e>>

info_text == <<"Please add your OpenAI API key in the sidebar to continue.">>

\* lines 160-162: one chat_message element per stored message
RECURSIVE display_history(_)
display_history(msgs) ==
    IF msgs = <<>> THEN <<>>
    ELSE <<Element("chat_message", Head(msgs).role, Head(msgs).content)>>
         \o display_history(Tail(msgs))

(* ------------------------------- state --------------------------------- *)

Init ==
    /\ api_key_input = ""
    /\ environ \in {EmptyDict} \cup {[k \in {"OPENAI_API_KEY"} |-> v] : v \in ApiKeys}
    /\ cache = EmptyDict
    /\ session_state = EmptyDict
    /\ pc = "sidebar"
    /\ openai_api_key = ""
    /\ agent_executor = <<>>
    /\ chat_value = <<>>
    /\ prompt = <<>>
    /\ turn = NoTurn
    /\ rendered = <<>>
    /\ calls = {}
    /\ last_stop = "none"
    /\ submissions = 0

\* a new script run starts with a fresh namespace and an empty page
StartRun ==
    /\ pc' = "sidebar"
    /\ openai_api_key' = ""
    /\ agent_executor' = <<>>
    /\ prompt' = <<>>
    /\ turn' = NoTurn
    /\ rendered' = <<>>
    /\ calls' = {}

\* st.stop() or the end of the script
EndRun(where) ==
    /\ pc' = "idle"
    /\ last_stop' = where

(* ------------------------------ UI events ------------------------------ *)

\* the user asks for a rerun without touching a widget
Rerun ==
    /\ pc = "idle"
    /\ StartRun
    /\ chat_value' = <<>>
    /\ UNCHANGED <<api_key_input, environ, cache, session_state, last_stop, submissions>>

\* the user edits the sidebar field (possibly clearing it)
EnterApiKey(k) ==
    /\ pc = "idle"
    /\ k # api_key_input
    /\ api_key_input' = k
    /\ StartRun
    /\ chat_value' = <<>>
    /\ UNCHANGED <<environ, cache, session_state, last_stop, submissions>>

\* the user submits a question; the chat_input widget exists only when the
\* previous run reached line 165
SubmitChat(q) ==
    /\ pc = "idle"
    /\ last_stop = "end"
    /\ submissions < MaxSubmissions
    /\ chat_value' = q
    /\ StartRun
    /\ UNCHANGED <<api_key_input, environ, cache, session_state, last_stop, submissions>>

(* ----------------------------- script steps ---------------------------- *)

\* lines 129-141
Gate ==
    /\ pc = "sidebar"
    /\ openai_api_key' = api_key_input
    /\ IF not_openai_api_key(api_key_input)
       THEN /\ rendered' = Append(rendered, Element("info", "", info_text))
            /\ EndRun("gate")
       ELSE /\ pc' = "environ"
            /\ UNCHANGED <<rendered, last_stop>>
    /\ UNCHANGED <<api_key_input, environ, cache, session_state, agent_executor,
                   chat_value, prompt, turn, calls, submissions>>

\* line 144
ExportKey ==
    /\ pc = "environ"
    /\ environ' = dict_set(environ, "OPENAI_API_KEY", openai_api_key)
    /\ pc' = "setup"
    /\ UNCHANGED <<api_key_input, cache, session_state, openai_api_key, agent_executor,
                   chat_value, prompt, turn, rendered, calls, last_stop, submissions>>

\* lines 52-53, 148: the cached object is returned, the body does not run
InitAgentCached ==
    /\ pc = "setup"
    /\ cache_hit(cache)
    /\ agent_executor' = <<cache["setup_agent"]>>
    /\ pc' = "history"
    /\ UNCHANGED <<api_key_input, environ, cache, session_state, openai_api_key,
                   chat_value, prompt, turn, rendered, calls, last_stop, submissions>>

\* lines 52-113, 148: the body runs, its result is stored and returned
InitAgentBuild ==
    /\ pc = "setup"
    /\ ~cache_hit(cache)
    /\ calls' = calls \cup {"setup_agent"}
    /\ cache' = dict_set(cache, "setup_agent", AgentExecutor(environ))
    /\ agent_executor' = <<AgentExecutor(environ)>>
    /\ pc' = "history"
    /\ UNCHANGED <<api_key_input, environ, session_state, openai_api_key,
                   chat_value, prompt, turn, rendered, last_stop, submissions>>

\* lines 52-113, 149-151: the body raises, nothing is stored
InitAgentFail(e) ==
    /\ pc = "setup"
    /\ ~cache_hit(cache)
    /\ calls' = calls \cup {"setup_agent"}
    /\ rendered' = Append(rendered, Element("error", "", init_error_fmt(e)))
    /\ EndRun("init_error")
    /\ UNCHANGED <<api_key_input, environ, cache, session_state, openai_api_key,
                   agent_executor, chat_value, prompt, turn, submissions>>

\* lines 156-162
ChatHistory ==
    /\ pc = "history"
    /\ session_state' = IF messages_not_in(session_state)
                        THEN dict_set(session_state, "messages", <<>>)
                        ELSE session_state
    /\ rendered' = rendered \o display_history(session_state'["messages"])
    /\ pc' = "chat_input"
    /\ UNCHANGED <<api_key_input, environ, cache, openai_api_key, agent_executor,
                   chat_value, prompt, turn, calls, last_stop, submissions>>

\* line 165, nothing submitted: the script ends
ChatInputNone ==
    /\ pc = "chat_input"
    /\ chat_value = <<>>
    /\ prompt' = chat_value
    /\ EndRun("end")
    /\ UNCHANGED <<api_key_input, environ, cache, session_state, openai_api_key,
                   agent_executor, chat_value, turn, rendered, calls, submissions>>

\* lines 165-169
ChatInputSubmit ==
    /\ pc = "chat_input"
    /\ chat_value # <<>>
    /\ prompt' = chat_value
    /\ session_state' = append_user(session_state, chat_value)
    /\ rendered' = Append(rendered, Element("chat_message", "user", chat_value))
    /\ submissions' = submissions + 1
    /\ pc' = "invoke"
    /\ UNCHANGED <<api_key_input, environ, cache, openai_api_key, agent_executor,
                   chat_value, turn, calls, last_stop>>

\* lines 182 and 187
append_assistant(ss, content) == messages_append(ss, Message("assistant", content))

\* lines 172-182: invoke returns
InvokeReturn(response) ==
    /\ pc = "invoke"
    /\ calls' = calls \cup {"invoke"}
    /\ LET final_answer == dict_get(response, "output", default_answer)
       IN /\ rendered' = Append(rendered, Element("chat_message", "assistant", final_answer))
          /\ session_state' = append_assistant(session_state, final_answer)
    /\ turn' = [kind |-> "returned", e |-> ""]
    /\ EndRun("end")
    /\ UNCHANGED <<api_key_input, environ, cache, openai_api_key, agent_executor,
                   chat_value, prompt, submissions>>

\* lines 172-180, 184-187: invoke (or a statement of the try block before
\* the append of line 182) raises an Exception, which line 184 catches
InvokeRaise(e) ==
    /\ pc = "invoke"
    /\ calls' = calls \cup {"invoke"}
    /\ LET error_message == error_message_fmt(e)
       IN /\ rendered' = Append(rendered, Element("error", "assistant", error_message))
          /\ session_state' = append_assistant(session_state, error_message)
    /\ turn' = [kind |-> "raised", e |-> e]
    /\ EndRun("end")
    /\ UNCHANGED <<api_key_input, environ, cache, openai_api_key, agent_executor,
                   chat_value, prompt, submissions>>

Next ==
    \/ Rerun
    \/ \E k \in ApiKeys \cup {""} : EnterApiKey(k)
    \/ \E q \in Questions : SubmitChat(q)
    \/ Gate
    \/ ExportKey
    \/ InitAgentCached
    \/ InitAgentBuild
    \/ \E e \in SetupExceptions : InitAgentFail(e)
    \/ ChatHistory
    \/ ChatInputNone
    \/ ChatInputSubmit
    \/ \E r \in Responses : InvokeReturn(r)
    \/ \E e \in Exceptions : InvokeRaise(e)

Spec == Init /\ [][Next]_vars

(* --------------------------- derived notions --------------------------- *)

\* the stored transcript, empty while st.session_state has no "messages"
Transcript == dict_get(session_state, "messages", <<>>)

\* the states of the chat UI loop, read off the script position
UIState ==
    IF pc = "invoke" THEN "Processing"
    ELSE IF pc = "idle" /\ last_stop = "end" THEN "Ready"
    ELSE IF pc = "idle" /\ last_stop = "gate" THEN "AwaitingCredential"
    ELSE IF pc = "idle" THEN "InitFailed"
    ELSE "Running"

IsPrefix(s, t) == Len(s) <= Len(t) /\ SubSeq(t, 1, Len(s)) = s

TypeOK ==
    /\ api_key_input \in ApiKeys \cup {""}
    /\ DOMAIN environ \subseteq {"OPENAI_API_KEY"}
    /\ DOMAIN cache \subseteq {"setup_agent"}
    /\ DOMAIN session_state \subseteq {"messages"}
    /\ pc \in {"idle", "sidebar", "environ", "setup", "history", "chat_input", "invoke"}
    /\ chat_value \in Questions \cup {<<>>}
    /\ calls \subseteq {"setup_agent", "invoke"}
    /\ last_stop \in {"none", "gate", "init_error", "end"}
    /\ submissions \in 0..MaxSubmissions

(* -------------------------------- claims ------------------------------- *)

\* C1: between script runs, after N accepted submissions the transcript
\* holds exactly 2N messages, a user message at every odd position
\* (1-based) and an assistant message at every even position.
C1_TwoMessagesPerSubmission ==
    pc = "idle" =>
        /\ Len(Transcript) = 2 * submissions
        /\ \A i \in 1..Len(Transcript) :
              Transcript[i].role = IF i % 2 = 1 THEN "user" ELSE "assistant"

\* two submissions processed, the first failed and the second succeeded
C1_Witness ==
    /\ pc = "idle"
    /\ submissions = 2
    /\ Len(Transcript) = 4
    /\ turn.kind = "returned"
    /\ Transcript[2].content = <<"An error occurred: ", "ValueError", ". Please try again.">>

\* C2: every step into a state whose credential field is empty leaves the
\* transcript and the executor cache as they were, belongs to a run that
\* has called neither setup_agent nor invoke, and that run ends at the gate
\* in AwaitingCredential.
C2_EmptyCredentialGates ==
    [][api_key_input' = "" =>
          /\ calls' = {}
          /\ session_state' = session_state
          /\ cache' = cache
          /\ pc' \in {"sidebar", "idle"}
          /\ (pc' = "idle" => UIState' = "AwaitingCredential")]_vars

\* a credential that was used for a turn has been cleared again
C2_Witness ==
    /\ api_key_input = ""
    /\ pc = "idle"
    /\ last_stop = "gate"
    /\ "setup_agent" \in DOMAIN cache
    /\ Len(Transcript) = 2

\* C3: a step in which invoke raises e appends exactly the assistant
\* message "An error occurred: e. Please try again." to the transcript,
\* keeps every earlier message, and leaves the UI loop in Ready.
C3_ExceptionBecomesMessage ==
    [][(pc = "invoke" /\ turn'.kind = "raised") =>
          /\ Transcript' = Append(Transcript,
                 [role |-> "assistant",
                  content |-> <<"An error occurred: ", turn'.e, ". Please try again.">>])
          /\ turn'.e \in Exceptions
          /\ UIState' = "Ready"]_vars

\* the second turn failed after a first turn that is still in the transcript
C3_Witness ==
    /\ pc = "idle"
    /\ turn.kind = "raised"
    /\ Len(Transcript) = 4
    /\ UIState = "Ready"
    /\ Transcript[2].role = "assistant"

\* C5: across every step the old transcript is a prefix of the new one,
\* the "messages" entry never disappears, and it is created empty.
C5_AppendOnly ==
    [][/\ IsPrefix(Transcript, Transcript')
       /\ ("messages" \in DOMAIN session_state => "messages" \in DOMAIN session_state')
       /\ (("messages" \notin DOMAIN session_state /\ "messages" \in DOMAIN session_state')
              => session_state'["messages"] = <<>>)]_vars

\* a run that found an existing history and is about to append to it
C5_Witness ==
    /\ pc = "chat_input"
    /\ chat_value # <<>>
    /\ Len(Transcript) = 2
    /\ cache["setup_agent"].llm.openai_api_key # api_key_input

\* C6: whenever the executor is about to be invoked, the last message of
\* the transcript is the user message holding the submitted text.
C6_UserMessageBeforeInvoke ==
    pc = "invoke" =>
        /\ Len(Transcript) >= 1
        /\ Transcript[Len(Transcript)] = [role |-> "user", content |-> chat_value]
        /\ prompt = chat_value
        /\ "invoke" \notin calls

\* the second question is about to be sent to the executor
C6_Witness ==
    /\ pc = "invoke"
    /\ submissions = 2
    /\ Len(Transcript) = 3
    /\ prompt = <<"Who won today?">>

\* C10: once setup_agent has stored an executor, no step changes the cache
\* or runs the body again; every run past line 148 holds the cached
\* object, and every run past line 144 has the entered key in os.environ.
C10_ExecutorBuiltOnce ==
    [][/\ ("setup_agent" \in DOMAIN cache =>
              /\ cache' = cache
              /\ ("setup_agent" \in calls' => "setup_agent" \in calls))
       /\ (pc' \in {"history", "chat_input", "invoke"} =>
              agent_executor' = <<cache'["setup_agent"]>>)
       /\ (pc' \in {"setup", "history", "chat_input", "invoke"} =>
              environ'["OPENAI_API_KEY"] = api_key_input')]_vars

\* a question is processed by an executor built with another key than the
\* one now entered and exported
C10_Witness ==
    /\ pc = "invoke"
    /\ agent_executor = <<cache["setup_agent"]>>
    /\ "setup_agent" \notin calls
    /\ environ["OPENAI_API_KEY"] = api_key_input
    /\ agent_executor[1].llm.openai_api_key # api_key_input

====
